---- MODULE Spec2Model ----
(***************************************************************************)
(* The chat relay (src/api/chat.js, a Vercel edge function that forwards   *)
(* a turn history to the Gemini API under a 50 s timer) and the chat       *)
(* client (src/src/components/companyTender/TenderChatbot.jsx).            *)
(*                                                                         *)
(* Spec       one relay invocation after another; the upstream service,    *)
(*            the timer and the request are the environment.               *)
(* FairSpec   Spec plus the fairness the JavaScript event loop gives: a    *)
(*            runnable continuation of the handler runs, an armed timer    *)
(*            fires.  Nothing is assumed of the upstream service.          *)
(* ClientSpec the React component: sends, completions and retries.         *)
(* ClientFairSpec  ClientSpec plus the firing of the client's armed 45 s   *)
(*            timer.                                                       *)
(* TwinSpec   the relay handling a request and then the same request with  *)
(*            the other userType, the upstream behaving the same way.      *)
(***************************************************************************)
EXTENDS Integers, Sequences, FiniteSets, TLC

VARIABLES
    env,        \* process.env.GEMINI_API_KEY of the invocation ("" = unset)
    req,        \* the request being handled: [method, body]
    pc,         \* where the handler is: idle, received, parsing, calling,
                \* readText, readJson, responded
    fetchState, \* the upstream fetch: none, pending, headers, body, failed
    timer,      \* the 50 s setTimeout of callGeminiApi: off, armed, fired
    race,       \* what settled Promise.race first: none, fetch, fetchError, timer
    upstream,   \* what the fetch settled with: the Response's [status], or
                \* [status |-> 0, error] when it rejected
    upstreamBody, \* what reading that Response's body gave: none, text, json, failed
    sent,       \* the bodies of the fetches issued for this request, in order
    responses,  \* the Responses the handler returned for this request, in order
    escaped,    \* TRUE when an exception left the handler uncaught
    userType,   \* the component's userType prop
    messages,   \* useState: the turns shown, each [role, content, isError]
    inputValue, \* useState: the text in the input box
    isTyping,   \* useState: a call is pending
    lastError,  \* useState: the error of the last failed call, or NoError
    inflight,   \* the axios.post calls not yet settled, oldest first
    clientTimer, \* the 45 s setTimeout of the latest call: off, armed, cleared, fired
    prev        \* what the invocation before this one was given and did, when
                \* this one repeats it with the other userType; NoPrev otherwise

relayVars == <<env, req, pc, fetchState, timer, race, upstream, upstreamBody, sent,
              responses, escaped>>

clientVars == <<userType, messages, inputValue, isTyping, lastError, inflight, clientTimer>>

vars == <<relayVars, clientVars, prev>>

-----------------------------------------------------------------------------
(* Bounds of the model *)

\* longest turn history a request carries
MaxHistory == 6

\* the client stops sending once it shows this many turns
MaxTurns == 6

(* Program constants *)

\* conversationHistory.slice(-5)
WindowSize == 5

-----------------------------------------------------------------------------
(* JSON values: undefined, null, strings, objects and arrays, each tagged,  *)
(* so that optional chaining and truthiness are computed as JavaScript     *)
(* computes them.                                                          *)

Undefined == [t |-> "undefined"]
Null == [t |-> "null"]
Str(s) == [t |-> "str", v |-> s]
Obj(fields) == [t |-> "obj", v |-> fields]
Arr(items) == [t |-> "arr", v |-> items]

\* o.k : undefined when o is an object without k (or a string, an array);
\* only reading a property of null or undefined throws
Prop(o, k) == IF o.t = "obj" /\ k \in DOMAIN o.v THEN o.v[k] ELSE Undefined

\* o?.k
OptProp(o, k) == IF o.t \in {"undefined", "null"} THEN Undefined ELSE Prop(o, k)

\* a?.[0]
OptFirst(a) ==
    IF a.t = "arr" /\ Len(a.v) >= 1 THEN a.v[1] ELSE Undefined

\* !!v
Truthy(v) ==
    CASE v.t \in {"undefined", "null"} -> FALSE
      [] v.t = "str" -> v.v # ""
      [] OTHER -> TRUE

-----------------------------------------------------------------------------
(* Error messages.  String.prototype.includes('timeout') is tabulated over  *)
(* the messages that occur.                                                *)

TimeoutErrorMessage == "Request timeout after 50 seconds"

\* V8's SyntaxError of JSON.parse quotes the text it could not parse
JsonSyntaxMessage(raw) ==
    CASE raw = "hello" -> "Unexpected token 'h', \"hello\" is not valid JSON"
      [] raw = "timeout" -> "Unexpected token 'i', \"timeout\" is not valid JSON"
      [] OTHER -> "Unexpected end of JSON input"

NullDestructureMessage ==
    "Cannot destructure property 'messages' of '(intermediate value)' as it is null."
NullRoleMessage == "Cannot read properties of null (reading 'role')"
NullErrorMessage == "Cannot read properties of null (reading 'error')"

\* the rejections of fetch and of reading a body: runtime-defined texts
TransportMessages == {"fetch failed", "network timeout at: generativelanguage.googleapis.com", ""}

IncludesTimeout(message) ==
    message \in { TimeoutErrorMessage,
                  "Unexpected token 'i', \"timeout\" is not valid JSON",
                  "network timeout at: generativelanguage.googleapis.com" }

-----------------------------------------------------------------------------
(* Responses of the relay: [status, body], body an object with the fields   *)
(* the code gives it.                                                      *)

methodNotAllowedResponse ==
    [status |-> 405, body |-> [error |-> "Method not allowed, use POST"]]

configurationErrorResponse ==
    [status |-> 500,
     body |-> [error |-> "Configuration error",
               details |-> "API key is not configured properly"]]

invalidRequestResponse ==
    [status |-> 400,
     body |-> [error |-> "Invalid request format",
               details |-> "Messages array is required"]]

\* isValidRequest without its length test
isValidRequestAnyArray(msgs) ==
    /\ msgs.tag # "undefined"
    /\ msgs.tag = "array"

\* messages: [tag, items]; tag is undefined, string (a non-array value) or array
isValidRequest(msgs) ==
    /\ msgs.tag # "undefined"
    /\ msgs.tag = "array"
    /\ Len(msgs.items) > 0

PromptCompany == "You are an AI assistant for a construction company that manages tenders."
PromptClient == "You are an AI assistant for clients looking for construction services."

\* createSystemPrompt with one template for both user types
createSystemPromptOneTemplate(type) == PromptCompany

createSystemPrompt(type) ==
    IF type = "company" THEN PromptCompany ELSE PromptClient

\* an element of messages that is null
NullElement == [null |-> TRUE]

\* msg => ({ role: msg.role === 'assistant' ? 'model' : 'user', parts: [{text: msg.content}] })
FormatTurn(msg) ==
    [role |-> IF msg.role = "assistant" THEN "model" ELSE "user",
     text |-> msg.content]

\* Array.prototype.slice(0, n)
SliceFirst(s, n) ==
    IF Len(s) <= n THEN s ELSE SubSeq(s, 1, n)

\* Array.prototype.slice(-n)
SliceLast(s, n) ==
    IF Len(s) <= n THEN s ELSE SubSeq(s, Len(s) - n + 1, Len(s))

\* formatConversationHistory without its slice
formatConversationHistoryUnsliced(items) ==
    [i \in 1..Len(items) |-> FormatTurn(items[i])]

formatConversationHistory(items) ==
    SliceLast([i \in 1..Len(items) |-> FormatTurn(items[i])], WindowSize)

\* msg.role of a null element throws a TypeError inside map
FormatThrows(items) == \E i \in 1..Len(items) : items[i] = NullElement

\* contents with the system prompt after the history instead of before it
RequestContentsPromptLast(systemPrompt, limitedHistory) ==
    limitedHistory \o <<[role |-> "user", text |-> systemPrompt]>>

\* the contents array of the body callGeminiApi posts
RequestContents(systemPrompt, limitedHistory) ==
    <<[role |-> "user", text |-> systemPrompt]>> \o limitedHistory

handleError(error) ==
    IF error.message # "" /\ IncludesTimeout(error.message)
    THEN [status |-> 504,
          body |-> [error |-> "Request timed out",
                    details |-> "The AI service took too long to respond"]]
    ELSE [status |-> 500,
          body |-> [error |-> "Failed to process request",
                    details |-> IF error.message # "" THEN error.message
                                ELSE "Unknown error"]]

FallbackText == "I'm sorry, I couldn't generate a response at the moment."

\* response.ok
IsOk(status) == status \in 200..299

UpstreamHttpErrorResponse(status, errorText) ==
    [status |-> 502,
     body |-> [error |-> "AI service error", status |-> status, details |-> errorText]]

\* data.candidates?.[0]?.content?.parts?.[0]?.text
ExtractText(data) ==
    OptProp(OptFirst(OptProp(OptProp(OptFirst(Prop(data, "candidates")), "content"), "parts")), "text")

\* handleApiResponse without its `if (data.error)` branch
ProcessDataErrorIgnored(data) ==
    [status |-> 200,
     body |-> [message |-> IF Truthy(ExtractText(data))
                           THEN ExtractText(data).v
                           ELSE FallbackText]]

\* handleApiResponse after `const data = await response.json()`; data is not null
ProcessData(data) ==
    IF Truthy(Prop(data, "error"))
    THEN [status |-> 500,
          body |-> [error |-> "AI service error",
                    details |-> IF Truthy(Prop(Prop(data, "error"), "message"))
                                THEN Prop(Prop(data, "error"), "message").v
                                ELSE "Unknown AI service error"]]
    ELSE [status |-> 200,
          body |-> [message |-> IF Truthy(ExtractText(data))
                                THEN ExtractText(data).v
                                ELSE FallbackText]]

-----------------------------------------------------------------------------
(* The inputs enumerated *)

Methods == {"POST", "GET"}
ApiKeys == {"", "secret"}
UserTypes == {"company", "client", "undefined"}
Roles == {"user", "assistant", "system"}
ContentAt == <<"c1", "c2", "c3", "c4", "c5", "c6", "c7", "c8", "c9">>

\* a history of n turns: any roles, the i-th turn carrying the i-th content
HistoriesOfLen(n) ==
    { [i \in 1..n |-> [role |-> r[i], content |-> ContentAt[i]]] : r \in [1..n -> Roles] }

MessagesValues ==
    { [tag |-> "undefined", items |-> <<>>],
      [tag |-> "string", items |-> <<>>],
      [tag |-> "array", items |-> <<NullElement>>] }
    \cup { [tag |-> "array", items |-> h] :
             h \in UNION { HistoriesOfLen(n) : n \in 0..MaxHistory } }

\* the request body: text that is not JSON, the JSON null, or an object
Bodies ==
    { [kind |-> "malformed", raw |-> "hello"],
      [kind |-> "malformed", raw |-> "timeout"],
      [kind |-> "null"] }
    \cup { [kind |-> "object", messages |-> m, userType |-> u] :
             m \in MessagesValues, u \in UserTypes }

UpstreamStatuses == {200, 429, 503}
UpstreamErrorTexts == {"", "quota exceeded"}

TextPart(s) == Obj([candidates |-> Arr(<<Obj([content |-> Obj([parts |-> Arr(<<Obj([text |-> Str(s)])>>)])])>>)])

\* the JSON a success response of the upstream carries
UpstreamData ==
    { Null,
      Obj([candidates |-> Arr(<<>>)]),
      Obj([promptFeedback |-> Str("blocked")]),
      Obj([candidates |-> Arr(<<Obj([finishReason |-> Str("SAFETY")])>>)]),
      Obj([candidates |-> Arr(<<Obj([content |-> Obj([parts |-> Arr(<<>>)])])>>)]),
      TextPart(""),
      TextPart("Hello"),
      Obj([error |-> Obj([message |-> Str("quota exceeded")])]),
      Obj([error |-> Obj([code |-> Str("429")])]),
      Obj([error |-> Str("overloaded")]),
      Obj([error |-> Null, candidates |-> TextPart("Hello").v.candidates]) }

-----------------------------------------------------------------------------
(* The relay *)

NoUpstream == [status |-> 0]
NoPrev == [kind |-> "none"]
NoBody == [kind |-> "none"]

RelayInit ==
    /\ env = ""
    /\ req = [method |-> "GET", body |-> [kind |-> "null"]]
    /\ pc = "idle"
    /\ fetchState = "none"
    /\ timer = "off"
    /\ race = "none"
    /\ upstream = NoUpstream
    /\ upstreamBody = NoBody
    /\ sent = <<>>
    /\ responses = <<>>
    /\ escaped = FALSE

\* return r
Respond(r) ==
    /\ responses' = Append(responses, r)
    /\ pc' = "responded"
    /\ UNCHANGED escaped

\* a catch block that throws the error on, as the one of callGeminiApi does
CatchRethrows(message) ==
    /\ escaped' = TRUE
    /\ pc' = "responded"
    /\ UNCHANGED responses

\* the catch block of handler
Catch(message) == Respond(handleError([message |-> message]))

\* a request arrives at a fresh invocation
NewRequest ==
    /\ pc = "idle"
    /\ \E k \in ApiKeys, m \in Methods, b \in Bodies :
         /\ env' = k
         /\ req' = [method |-> m, body |-> b]
    /\ pc' = "received"
    /\ fetchState' = "none"
    /\ timer' = "off"
    /\ race' = "none"
    /\ upstream' = NoUpstream
    /\ upstreamBody' = NoBody
    /\ sent' = <<>>
    /\ responses' = <<>>
    /\ escaped' = FALSE
    /\ UNCHANGED <<clientVars, prev>>

\* handler without its test of process.env.GEMINI_API_KEY
HandlerStartKeyUnchecked ==
    /\ pc = "received"
    /\ IF req.method # "POST"
       THEN Respond(methodNotAllowedResponse)
       ELSE /\ pc' = "parsing"
            /\ UNCHANGED <<responses, escaped>>
    /\ UNCHANGED <<env, req, fetchState, timer, race, upstream, upstreamBody, sent>>
    /\ UNCHANGED <<clientVars, prev>>

\* handler up to `await req.json()`
HandlerStart ==
    /\ pc = "received"
    /\ IF req.method # "POST"
       THEN Respond(methodNotAllowedResponse)
       ELSE IF env = ""
            THEN Respond(configurationErrorResponse)
            ELSE /\ pc' = "parsing"
                 /\ UNCHANGED <<responses, escaped>>
    /\ UNCHANGED <<env, req, fetchState, timer, race, upstream, upstreamBody, sent>>
    /\ UNCHANGED <<clientVars, prev>>

\* callGeminiApi up to `await Promise.race(...)`
IssueFetch(contents) ==
    /\ sent' = Append(sent, [contents |-> contents])
    /\ fetchState' = "pending"
    /\ timer' = "armed"
    /\ pc' = "calling"
    /\ UNCHANGED <<responses, escaped>>

\* handler from the result of req.json() to the next await
RequestParsed ==
    /\ pc = "parsing"
    /\ LET b == req.body IN
       CASE b.kind = "malformed" ->
              /\ Catch(JsonSyntaxMessage(b.raw))
              /\ UNCHANGED <<sent, fetchState, timer>>
         [] b.kind = "null" ->
              /\ Catch(NullDestructureMessage)
              /\ UNCHANGED <<sent, fetchState, timer>>
         [] OTHER ->
              IF ~isValidRequest(b.messages)
              THEN /\ Respond(invalidRequestResponse)
                   /\ UNCHANGED <<sent, fetchState, timer>>
              ELSE IF FormatThrows(b.messages.items)
                   THEN /\ Catch(NullRoleMessage)
                        /\ UNCHANGED <<sent, fetchState, timer>>
                   ELSE IssueFetch(RequestContents(createSystemPrompt(b.userType),
                                       formatConversationHistory(b.messages.items)))
    /\ UNCHANGED <<env, req, race, upstream, upstreamBody>>
    /\ UNCHANGED <<clientVars, prev>>

\* the upstream answers with its status line and headers: fetch resolves
FetchResolve ==
    /\ fetchState = "pending"
    /\ \E s \in UpstreamStatuses :
         /\ upstream' = [status |-> s]
         /\ fetchState' = "headers"
         /\ IF pc = "calling"
            THEN /\ race' = "fetch"
                 /\ pc' = IF IsOk(s) THEN "readJson" ELSE "readText"
            ELSE UNCHANGED <<race, pc>>
    /\ UNCHANGED <<env, req, timer, upstreamBody, sent, responses, escaped>>
    /\ UNCHANGED <<clientVars, prev>>

\* the upstream call fails in transport: fetch rejects
FetchReject ==
    /\ fetchState = "pending"
    /\ fetchState' = "failed"
    /\ \E m \in TransportMessages :
         /\ upstream' = [status |-> 0, error |-> m]
         /\ IF pc = "calling"
            THEN /\ race' = "fetchError"
                 /\ Catch(m)
            ELSE UNCHANGED <<race, pc, responses, escaped>>
    /\ UNCHANGED <<env, req, timer, upstreamBody, sent>>
    /\ UNCHANGED <<clientVars, prev>>

\* 50 s have passed: the timeout promise rejects
TimerFire ==
    /\ timer = "armed"
    /\ timer' = "fired"
    /\ IF pc = "calling"
       THEN /\ race' = "timer"
            /\ Catch(TimeoutErrorMessage)
       ELSE UNCHANGED <<race, pc, responses, escaped>>
    /\ UNCHANGED <<env, req, fetchState, upstream, upstreamBody, sent>>
    /\ UNCHANGED <<clientVars, prev>>

\* handleApiResponse, !response.ok: `await response.text()` resolves
UpstreamText ==
    /\ pc = "readText"
    /\ fetchState = "headers"
    /\ fetchState' = "body"
    /\ \E t \in UpstreamErrorTexts :
         /\ upstreamBody' = [kind |-> "text", text |-> t]
         /\ Respond(UpstreamHttpErrorResponse(upstream.status, t))
    /\ UNCHANGED <<env, req, timer, race, upstream, sent>>
    /\ UNCHANGED <<clientVars, prev>>

\* handleApiResponse, response.ok: `await response.json()` resolves
UpstreamJson ==
    /\ pc = "readJson"
    /\ fetchState = "headers"
    /\ fetchState' = "body"
    /\ \E data \in UpstreamData :
         /\ upstreamBody' = [kind |-> "json", data |-> data]
         /\ IF data = Null
            THEN Catch(NullErrorMessage)
            ELSE Respond(ProcessData(data))
    /\ UNCHANGED <<env, req, timer, race, upstream, sent>>
    /\ UNCHANGED <<clientVars, prev>>

\* reading the upstream body fails: the text is no JSON, or the connection drops
UpstreamBodyFails ==
    /\ pc \in {"readText", "readJson"}
    /\ fetchState = "headers"
    /\ fetchState' = "failed"
    /\ \E m \in TransportMessages \cup
                 (IF pc = "readJson"
                  THEN {JsonSyntaxMessage("hello"), JsonSyntaxMessage("timeout")}
                  ELSE {}) :
         /\ upstreamBody' = [kind |-> "failed", message |-> m]
         /\ Catch(m)
    /\ UNCHANGED <<env, req, timer, race, upstream, sent>>
    /\ UNCHANGED <<clientVars, prev>>

\* the invocation is over: the platform has delivered the response
InvocationEnds ==
    /\ pc = "responded"
    /\ env' = ""
    /\ req' = [method |-> "GET", body |-> [kind |-> "null"]]
    /\ pc' = "idle"
    /\ fetchState' = "none"
    /\ timer' = "off"
    /\ race' = "none"
    /\ upstream' = NoUpstream
    /\ upstreamBody' = NoBody
    /\ sent' = <<>>
    /\ responses' = <<>>
    /\ escaped' = FALSE
    /\ UNCHANGED <<clientVars, prev>>

RelayNext ==
    \/ NewRequest
    \/ InvocationEnds
    \/ HandlerStart
    \/ RequestParsed
    \/ FetchResolve
    \/ FetchReject
    \/ TimerFire
    \/ UpstreamText
    \/ UpstreamJson
    \/ UpstreamBodyFails

-----------------------------------------------------------------------------
(* The client.  The panel's open and minimized flags only hide the controls  *)
(* and the turns' timestamps are not read by the logic; both are left out.  *)
(* React re-renders between two user events, so a handler sees the state   *)
(* as of its event.                                                        *)

NoError == [kind |-> "none"]

Greeting(u) ==
    IF u = "company"
    THEN "Hello! I'm your tender management assistant."
    ELSE "Hello! I'm your tender assistant."

\* what the user may type; Blank trims to the empty string
Blank == "  "
Typed == {"hi", "bid", Blank}

\* content.trim()
Trim(content) == IF content = Blank THEN "" ELSE content

\* what the relay may answer with a non-2xx status
RelayErrorStatuses == {500, 502, 504}

\* the ways axios.post rejects: a non-2xx response, no response (network
\* failure or axios's own 45 s timeout), cancellation through the token
Failures ==
    { [kind |-> "response", status |-> st] : st \in RelayErrorStatuses }
    \cup { [kind |-> "request", message |-> "timeout of 45000ms exceeded"],
           [kind |-> "request", message |-> "Network Error"] }

CancelFailure == [kind |-> "cancel", message |-> "Request timed out"]

Replies == {"Here is how to submit a bid."}

UserTurn(content) == [role |-> "user", content |-> content, isError |-> FALSE]
AssistantTurn(content) == [role |-> "assistant", content |-> content, isError |-> FALSE]
ErrorTurn(content) == [role |-> "assistant", content |-> content, isError |-> TRUE]

\* the catch block's choice of errorMessage
ErrorText(error) ==
    CASE error.kind = "response" /\ error.status = 504 ->
           "The server took too long to respond. This might be due to high traffic or complex queries."
      [] error.kind = "response" /\ error.status = 500 ->
           "There was a server error processing your request. Our team has been notified."
      [] error.kind = "response" ->
           "I'm having trouble connecting right now. Please try again later."
      [] error.kind = "request" ->
           "No response received from the server. Please check your internet connection."
      [] OTHER ->
           \* 'Request timed out' does not include 'timeout'
           "I'm having trouble connecting right now. Please try again later."

\* messages.concat(userMessage).map(msg => ({ role: msg.role, content: msg.content }))
Serialize(ms) == [i \in 1..Len(ms) |-> [role |-> ms[i].role, content |-> ms[i].content]]

\* retryLastMessage without its filter
RemoveErrorsKeepsAll(ms) == ms

\* a filter that keeps the user turns only
RemoveErrorsAndReplies(ms) == SelectSeq(ms, LAMBDA m : m.role = "user")

\* prevMessages.filter(msg => !msg.isError)
RemoveErrors(ms) == SelectSeq(ms, LAMBDA m : ~m.isError)

\* the index of the last user turn, 0 when there is none
LastUserIndex(ms) ==
    IF \E i \in 1..Len(ms) : ms[i].role = "user"
    THEN CHOOSE i \in 1..Len(ms) :
           /\ ms[i].role = "user"
           /\ \A j \in (i+1)..Len(ms) : ms[j].role # "user"
    ELSE 0

ClientInit ==
    /\ userType \in {"company", "client"}
    /\ messages = <<AssistantTurn(Greeting(userType))>>
    /\ inputValue = ""
    /\ isTyping = FALSE
    /\ lastError = NoError
    /\ inflight = <<>>
    /\ clientTimer = "off"

\* handleSendMessage without its setLastError(null)
handleSendMessageKeepsLastError(content, shown, queued, viaRetry) ==
    IF Trim(content) = ""
    THEN UNCHANGED <<messages, inputValue, isTyping, lastError, inflight, clientTimer>>
    ELSE /\ messages' = Append(queued, UserTurn(content))
         /\ inputValue' = ""
         /\ isTyping' = TRUE
         /\ UNCHANGED lastError
         /\ inflight' = Append(inflight,
                [payload |-> Serialize(Append(shown, UserTurn(content))),
                 userType |-> userType,
                 retry |-> viaRetry])
         /\ clientTimer' = "armed"

\* handleSendMessage(content) up to `await axios.post(...)`: `shown` is the
\* messages of the render the handler closes over, `queued` the state its
\* setMessages updater is applied to
handleSendMessage(content, shown, queued, viaRetry) ==
    IF Trim(content) = ""
    THEN UNCHANGED <<messages, inputValue, isTyping, lastError, inflight, clientTimer>>
    ELSE /\ messages' = Append(queued, UserTurn(content))
         /\ inputValue' = ""
         /\ isTyping' = TRUE
         /\ lastError' = NoError
         /\ inflight' = Append(inflight,
                [payload |-> Serialize(Append(shown, UserTurn(content))),
                 userType |-> userType,
                 retry |-> viaRetry])
         /\ clientTimer' = "armed"

\* onChange of the input, which is disabled while isTyping
TypeInput ==
    /\ ~isTyping
    /\ \E v \in Typed : inputValue' = v
    /\ UNCHANGED <<userType, messages, isTyping, lastError, inflight, clientTimer>>
    /\ UNCHANGED <<relayVars, prev>>

\* the send button, disabled when the input is blank or isTyping
ClickSend ==
    /\ ~isTyping
    /\ Trim(inputValue) # ""
    /\ Len(messages) < MaxTurns
    /\ handleSendMessage(inputValue, messages, messages, FALSE)
    /\ UNCHANGED userType
    /\ UNCHANGED <<relayVars, prev>>

\* Enter in the input, which is disabled while isTyping
PressEnter ==
    /\ ~isTyping
    /\ Len(messages) < MaxTurns
    /\ handleSendMessage(inputValue, messages, messages, FALSE)
    /\ UNCHANGED userType
    /\ UNCHANGED <<relayVars, prev>>

\* the Retry button of an error turn: retryLastMessage
ClickRetry ==
    /\ \E i \in 1..Len(messages) : messages[i].isError
    /\ Len(RemoveErrors(messages)) < MaxTurns
    /\ IF lastError = NoError \/ LastUserIndex(messages) = 0
       THEN UNCHANGED <<messages, inputValue, isTyping, lastError, inflight, clientTimer>>
       ELSE handleSendMessage(messages[LastUserIndex(messages)].content,
                              messages, RemoveErrors(messages), TRUE)
    /\ UNCHANGED userType
    /\ UNCHANGED <<relayVars, prev>>

\* axios.post resolves: the relay answered 2xx
CallSucceeds ==
    /\ inflight # <<>>
    /\ \E text \in Replies : messages' = Append(messages, AssistantTurn(text))
    /\ clientTimer' = "cleared"
    /\ isTyping' = FALSE
    /\ inflight' = Tail(inflight)
    /\ UNCHANGED <<userType, inputValue, lastError>>
    /\ UNCHANGED <<relayVars, prev>>

\* the catch block without the finally block's setIsTyping(false)
CatchFailureKeepsTyping(error) ==
    /\ lastError' = error
    /\ messages' = Append(messages, ErrorTurn(ErrorText(error)))
    /\ UNCHANGED isTyping
    /\ inflight' = Tail(inflight)

\* the catch and finally blocks of handleSendMessage
CatchFailure(error) ==
    /\ lastError' = error
    /\ messages' = Append(messages, ErrorTurn(ErrorText(error)))
    /\ isTyping' = FALSE
    /\ inflight' = Tail(inflight)

\* axios.post rejects: a non-2xx answer, or none at all
CallFails ==
    /\ inflight # <<>>
    /\ \E error \in Failures : CatchFailure(error)
    /\ UNCHANGED <<userType, inputValue, clientTimer>>
    /\ UNCHANGED <<relayVars, prev>>

\* 45 s have passed: source.cancel('Request timed out')
ClientTimerFires ==
    /\ clientTimer = "armed"
    /\ clientTimer' = "fired"
    /\ IF inflight # <<>>
       THEN CatchFailure(CancelFailure)
       ELSE UNCHANGED <<messages, isTyping, lastError, inflight>>
    /\ UNCHANGED <<userType, inputValue>>
    /\ UNCHANGED <<relayVars, prev>>

ClientNext ==
    \/ TypeInput
    \/ ClickSend
    \/ PressEnter
    \/ ClickRetry
    \/ CallSucceeds
    \/ CallFails
    \/ ClientTimerFires

-----------------------------------------------------------------------------

Init == RelayInit /\ ClientInit /\ prev = NoPrev

Next == RelayNext

Spec == Init /\ [][Next]_vars

ClientSpec == Init /\ [][ClientNext]_vars

\* what the event loop guarantees: a continuation of the handler that can run
\* does run, and an armed timer fires; the upstream service answers or not
FairSpec ==
    /\ Spec
    /\ WF_vars(HandlerStart)
    /\ WF_vars(RequestParsed)
    /\ WF_vars(TimerFire)

\* the client's event loop: its armed 45 s timer fires; nothing is assumed
\* of the relay or of the user
ClientFairSpec ==
    /\ ClientSpec
    /\ WF_vars(ClientTimerFires)

-----------------------------------------------------------------------------
(* The relay invoked twice: a request with userType company or client is   *)
(* handled, and then the same request with the other userType is handled    *)
(* in the same configuration, the upstream doing what it did the first      *)
(* time.  The handler's own steps are the ones above, unrestricted.         *)

OtherUserType(u) == IF u = "company" THEN "client" ELSE "company"

\* what the invocation submitted and returned, and what its upstream call did
Observed ==
    [kind |-> "run",
     sent |-> sent,
     responses |-> responses,
     race |-> race,
     upstream |-> upstream,
     upstreamBody |-> upstreamBody]

\* a request whose body is an object with userType company or client arrives
TwinFirstRequest ==
    /\ prev = NoPrev
    /\ NewRequest
    /\ req'.body.kind = "object"
    /\ req'.body.userType \in {"company", "client"}

\* the first invocation is over; the request arrives again, userType changed
TwinRequest ==
    /\ pc = "responded"
    /\ prev = NoPrev
    /\ prev' = Observed
    /\ req' = [req EXCEPT !.body.userType = OtherUserType(@)]
    /\ pc' = "received"
    /\ fetchState' = "none"
    /\ timer' = "off"
    /\ race' = "none"
    /\ upstream' = NoUpstream
    /\ upstreamBody' = NoBody
    /\ sent' = <<>>
    /\ responses' = <<>>
    /\ escaped' = FALSE
    /\ UNCHANGED <<env, clientVars>>

\* the second invocation's upstream call settles, against the timer and in
\* itself, as the first one's did
SameUpstream ==
    /\ race' \in {"none", prev.race}
    /\ upstream' \in {NoUpstream, prev.upstream}
    /\ upstreamBody' \in {NoBody, prev.upstreamBody}

\* a step of the first invocation, or one of the second that SameUpstream allows
Replay(step) ==
    /\ step
    /\ prev # NoPrev => SameUpstream

\* the second invocation is over
PairEnds ==
    /\ pc = "responded"
    /\ prev # NoPrev
    /\ prev' = NoPrev
    /\ env' = ""
    /\ req' = [method |-> "GET", body |-> [kind |-> "null"]]
    /\ pc' = "idle"
    /\ fetchState' = "none"
    /\ timer' = "off"
    /\ race' = "none"
    /\ upstream' = NoUpstream
    /\ upstreamBody' = NoBody
    /\ sent' = <<>>
    /\ responses' = <<>>
    /\ escaped' = FALSE
    /\ UNCHANGED clientVars

TwinNext ==
    \/ TwinFirstRequest
    \/ TwinRequest
    \/ PairEnds
    \/ Replay(HandlerStart)
    \/ Replay(RequestParsed)
    \/ Replay(FetchResolve)
    \/ Replay(FetchReject)
    \/ Replay(TimerFire)
    \/ Replay(UpstreamText)
    \/ Replay(UpstreamJson)
    \/ Replay(UpstreamBodyFails)

\* the client takes no step here; its panel is the company's
TwinInit ==
    /\ Init
    /\ userType = "company"

TwinSpec == TwinInit /\ [][TwinNext]_vars

-----------------------------------------------------------------------------
(* The claims *)

Active == pc # "idle"

\* the request's body is an object whose messages is [] or is not there
EmptyOrMissing ==
    /\ req.body.kind = "object"
    /\ \/ req.body.messages.tag = "undefined"
       \/ req.body.messages.tag = "array" /\ req.body.messages.items = <<>>

\* C1 as stated: a request whose messages is [] or missing never reaches the
\* upstream call and is answered 400 'Invalid request format', whatever the
\* method and the configuration are.
C1_Original ==
    (Active /\ EmptyOrMissing) =>
        /\ sent = <<>>
        /\ pc = "responded" => responses = <<invalidRequestResponse>>

\* C1 amended: a request whose messages is [] or missing never reaches the
\* upstream call; when it is a POST and the credential is set, it is answered
\* 400 'Invalid request format'.
C1_Amended ==
    (Active /\ EmptyOrMissing) =>
        /\ sent = <<>>
        /\ fetchState = "none"
        /\ (pc = "responded" /\ req.method = "POST" /\ env # "") =>
               responses = <<invalidRequestResponse>>

C1_Witness ==
    /\ pc = "responded"
    /\ EmptyOrMissing
    /\ req.body.messages.tag = "array"
    /\ req.method = "POST"
    /\ env # ""
    /\ responses = <<invalidRequestResponse>>

\* C2 as stated: a request made while GEMINI_API_KEY is unset is answered
\* 500 'Configuration error' and the upstream call is not attempted.
C2_Original ==
    (Active /\ env = "") =>
        /\ sent = <<>>
        /\ pc = "responded" => responses = <<configurationErrorResponse>>

\* C2 amended: a POST request made while GEMINI_API_KEY is unset is answered
\* 500 'Configuration error'; no request made while it is unset reaches the
\* upstream call.
C2_Amended ==
    (Active /\ env = "") =>
        /\ sent = <<>>
        /\ fetchState = "none"
        /\ (pc = "responded" /\ req.method = "POST") =>
               responses = <<configurationErrorResponse>>

C2_Witness ==
    /\ pc = "responded"
    /\ env = ""
    /\ req.method = "POST"
    /\ req.body.kind = "object"
    /\ isValidRequest(req.body.messages)
    /\ responses = <<configurationErrorResponse>>

\* C3 as stated: every request the relay receives is eventually responded to,
\* also when the upstream never answers or never finishes its body.
C3_Original == (pc = "received") ~> (pc = "responded")

TimeoutResponse ==
    [status |-> 504,
     body |-> [error |-> "Request timed out",
               details |-> "The AI service took too long to respond"]]

\* C4 as stated: the response is the 504 'Request timed out' envelope when the
\* timer fired before the upstream call completed, and in no other case is
\* the status 504.
C4_Original ==
    pc = "responded" =>
        /\ race = "timer" => responses = <<TimeoutResponse>>
        /\ responses[1].status = 504 => race = "timer"

\* C5: the contents submitted upstream begin with the one turn the relay
\* synthesizes from the system prompt, and every element after it is a turn
\* carried over from the request's history, so none of them is synthesized.
C5_Theorem ==
    sent # <<>> =>
        LET c == sent[1].contents
            items == req.body.messages.items
        IN  /\ Len(c) >= 1
            /\ c[1] = [role |-> "user", text |-> createSystemPrompt(req.body.userType)]
            /\ Len(c) - 1 <= Len(items)
            /\ \A i \in 2..Len(c) :
                 c[i].text = items[Len(items) - Len(c) + i].content

C5_Witness ==
    /\ pc = "calling"
    /\ sent # <<>>
    /\ Len(req.body.messages.items) > WindowSize
    /\ sent[1].contents[1].text = PromptCompany

\* C6: the window submitted upstream (the suffix of the history that follows
\* the system turn in contents) never has more than WindowSize turns, whatever
\* the length of the history.
C6_Theorem ==
    \A k \in 1..Len(sent) : Len(Tail(sent[k].contents)) <= WindowSize

C6_Witness ==
    /\ sent # <<>>
    /\ Len(req.body.messages.items) > WindowSize
    /\ Len(Tail(sent[1].contents)) = WindowSize

HasErrorField(data) == data.t = "obj" /\ "error" \in DOMAIN data.v

\* C7 as stated: a success answer of the upstream without an error field is
\* relayed as 200 {message}, the message being the text at
\* candidates[0].content.parts[0].text when there is a non-empty one and the
\* fallback string otherwise.
C7_Original ==
    (pc = "responded" /\ upstreamBody.kind = "json"
        /\ ~HasErrorField(upstreamBody.data)) =>
        responses =
            <<[status |-> 200,
               body |-> [message |->
                   IF ExtractText(upstreamBody.data).t = "str"
                      /\ ExtractText(upstreamBody.data).v # ""
                   THEN ExtractText(upstreamBody.data).v
                   ELSE FallbackText]]>>

\* the message of the upstream's error field, when it has one
UpstreamErrorMessage(data) ==
    IF Prop(Prop(data, "error"), "message").t = "str"
    THEN Prop(Prop(data, "error"), "message").v
    ELSE "<none>"

HttpErrorRelayed ==
    (pc = "responded" /\ upstreamBody.kind = "text") =>
        responses =
            <<[status |-> 502,
               body |-> [error |-> "AI service error",
                         status |-> upstream.status,
                         details |-> upstreamBody.text]]>>

\* C8 as stated: a non-success answer is relayed as 502 'AI service error' with
\* the upstream status and body; a success answer whose body has an error
\* field as 500 'AI service error' with the upstream error message; neither as
\* a {message} success.
C8_Original ==
    /\ HttpErrorRelayed
    /\ (pc = "responded" /\ upstreamBody.kind = "json"
          /\ HasErrorField(upstreamBody.data)) =>
          responses =
              <<[status |-> 500,
                 body |-> [error |-> "AI service error",
                           details |-> UpstreamErrorMessage(upstreamBody.data)]]>>

\* C8 amended: a non-success answer is relayed as 502 'AI service error' with
\* the upstream status and body; a success answer whose body has a truthy
\* error field as 500 'AI service error' whose details is the message of that
\* error when it has a non-empty one and 'Unknown AI service error'
\* otherwise; neither as a {message} success.
C8_Amended ==
    /\ HttpErrorRelayed
    /\ (pc = "responded" /\ upstreamBody.kind = "json"
          /\ upstreamBody.data # Null
          /\ Truthy(Prop(upstreamBody.data, "error"))) =>
          responses =
              <<[status |-> 500,
                 body |-> [error |-> "AI service error",
                           details |->
                               IF UpstreamErrorMessage(upstreamBody.data) \notin {"<none>", ""}
                               THEN UpstreamErrorMessage(upstreamBody.data)
                               ELSE "Unknown AI service error"]]>>

C8_Witness ==
    /\ pc = "responded"
    /\ upstreamBody.kind = "json"
    /\ upstreamBody.data = Obj([error |-> Obj([message |-> Str("quota exceeded")])])
    /\ responses[1].status = 500
    /\ responses[1].body.details = "quota exceeded"

ResponseStatuses == {200, 400, 405, 500, 502, 504}

\* C9: whatever happens to a request, no exception leaves the handler and
\* the one response it returns has a status among 200, 400, 405, 500, 502 and
\* 504, with a message field exactly when the status is 200 and an error
\* field otherwise.
C9_Theorem ==
    /\ ~escaped
    /\ Len(responses) <= 1
    /\ pc = "responded" => Len(responses) = 1
    /\ \A i \in 1..Len(responses) :
         /\ responses[i].status \in ResponseStatuses
         /\ ("message" \in DOMAIN responses[i].body) <=> (responses[i].status = 200)
         /\ ("error" \in DOMAIN responses[i].body) <=> (responses[i].status # 200)

C9_Witness ==
    /\ pc = "responded"
    /\ upstreamBody.kind = "failed"
    /\ responses[1].status = 500
    /\ responses[1].body.error = "Failed to process request"

NumErrors(ms) == Len(SelectSeq(ms, LAMBDA m : m.isError))

\* this step issues a call from retryLastMessage
RetryIssued ==
    /\ Len(inflight') = Len(inflight) + 1
    /\ inflight'[Len(inflight')].retry

\* this step settles a call that retryLastMessage issued
RetrySettled ==
    /\ inflight # <<>>
    /\ inflight[1].retry
    /\ inflight' = Tail(inflight)

\* C10: a retry resubmits the content of the last user turn unchanged, a
\* retry leaves no error turn in the history, and when the retried call
\* settles the only error turn the history can hold is the one that call has
\* just appended.
C10_Theorem ==
    [][ /\ RetryIssued =>
             LET content == messages[LastUserIndex(messages)].content
                 call == inflight'[Len(inflight')]
             IN  /\ LastUserIndex(messages) # 0
                 /\ call.payload[Len(call.payload)] = [role |-> "user", content |-> content]
                 /\ messages'[Len(messages')] = UserTurn(content)
                 /\ NumErrors(messages') = 0
        /\ RetrySettled =>
             \A i \in 1..(Len(messages') - 1) : ~messages'[i].isError
      ]_vars

\* a retry has failed again: the history ends with the user turn, its
\* resubmission and the one error turn of the retried call
C10_Witness ==
    /\ inflight = <<>>
    /\ lastError # NoError
    /\ Len(messages) >= 4
    /\ messages[Len(messages)].isError
    /\ messages[Len(messages) - 1].role = "user"
    /\ messages[Len(messages) - 1] = messages[Len(messages) - 2]
    /\ NumErrors(messages) = 1

\* this step issues a relay call
CallIssued == Len(inflight') = Len(inflight) + 1

\* this step settles the oldest relay call
CallSettled ==
    /\ inflight # <<>>
    /\ inflight' = Tail(inflight)

\* C11: a send of non-blank text appends one user turn and sets pending; the
\* call then settles, and the step that settles it appends exactly one turn,
\* an assistant turn on success or an error turn with lastError set (so Retry
\* acts) otherwise, and clears pending; pending never stays set forever.
C11_Theorem ==
    /\ [][ /\ (CallIssued /\ ~inflight'[Len(inflight')].retry) =>
                /\ Trim(inputValue) # ""
                /\ messages' = Append(messages, UserTurn(inputValue))
                /\ isTyping'
           /\ CallSettled =>
                /\ Len(messages') = Len(messages) + 1
                /\ SubSeq(messages', 1, Len(messages)) = messages
                /\ ~isTyping'
                /\ messages'[Len(messages')].role = "assistant"
                /\ \/ /\ ~messages'[Len(messages')].isError
                      /\ lastError' = NoError
                   \/ /\ messages'[Len(messages')].isError
                      /\ lastError' # NoError
                      /\ LastUserIndex(messages') # 0
         ]_vars
    /\ isTyping ~> ~isTyping

\* the 45 s timer has cancelled a call: an error turn, lastError set, not pending
C11_Witness ==
    /\ clientTimer = "fired"
    /\ lastError = CancelFailure
    /\ ~isTyping
    /\ inflight = <<>>
    /\ messages[Len(messages)].isError

\* C12: at most one relay call of the client is in flight; a call is in
\* flight exactly while pending is set, and then lastError is clear, so that
\* neither the send button, nor Enter, nor Retry starts a second one.
C12_Theorem ==
    /\ Len(inflight) <= 1
    /\ isTyping <=> inflight # <<>>
    /\ isTyping => lastError = NoError

\* a call is pending while an error turn, with its Retry button, is shown
C12_Witness ==
    /\ isTyping
    /\ Len(inflight) = 1
    /\ \E i \in 1..Len(messages) : messages[i].isError

\* C18: the `messages` payload of every relay call of the client, a retry's
\* included, is the visible turn history at the moment of the call (it ends
\* with the user turn just appended) serialized to {role, content}, and so
\* holds no turn that was removed from the visible history.
C18_Original ==
    inflight # <<>> => inflight[Len(inflight)].payload = Serialize(messages)

\* C19: the turn list is append-only: a step leaves every turn as it was and
\* in the order it was, adds at most one turn and adds it at the end; the only
\* turns a step removes are error turns, and only a retry removes them.
C19_Theorem ==
    [][ LET kept == IF RetryIssued
                    THEN SelectSeq(messages, LAMBDA t : ~t.isError)
                    ELSE messages
        IN  /\ Len(messages') \in {Len(kept), Len(kept) + 1}
            /\ SubSeq(messages', 1, Len(kept)) = kept
      ]_vars

\* a retry has removed two error turns, one of them from between other turns
C19_Witness ==
    /\ inflight # <<>>
    /\ inflight[1].retry
    /\ Len(inflight[1].payload) > Len(messages) + 1
    /\ Len(messages) >= 4

\* the relay's half of C14: the 50 s timer has not fired once fetch resolved
RelayTimerQuietAfterResponse == race = "fetch" => timer # "fired"

\* the client's half of C14: after a call that succeeded the 45 s timer is cleared
ClientTimerClearedAfterSuccess ==
    (~isTyping /\ Len(messages) > 1 /\ ~messages[Len(messages)].isError)
        => clientTimer = "cleared"

\* C14 as stated: in the relay's race and in the client's race alike, once the
\* call has completed successfully the deadline timer is cleared, so that it
\* never fires after the response has been obtained.
C14_Original ==
    /\ RelayTimerQuietAfterResponse
    /\ ClientTimerClearedAfterSuccess

\* C15 as stated: when the 50 s timer wins the race the upstream call is
\* aborted: once the relay has responded with the timeout, no upstream call of
\* the request is still in flight.
C15_Original ==
    (pc = "responded" /\ race = "timer") => fetchState # "pending"

\* the steps between the phases of one request
PhaseOrder ==
    { <<"idle", "received">>,
      <<"received", "parsing">>, <<"received", "responded">>,
      <<"parsing", "calling">>, <<"parsing", "responded">>,
      <<"calling", "readJson">>, <<"calling", "readText">>, <<"calling", "responded">>,
      <<"readJson", "responded">>, <<"readText", "responded">>,
      <<"responded", "idle">> }

\* method, credential and turns have passed their tests
Validated ==
    /\ req.method = "POST"
    /\ env # ""
    /\ req.body.kind = "object"
    /\ isValidRequest(req.body.messages)

\* the safety half of C16: the phases come in their order, the upstream call
\* is issued from the validated request only and at most once, and there is
\* never more than one response
RelayPhasesInOrder ==
    /\ [][pc' # pc => <<pc, pc'>> \in PhaseOrder]_vars
    /\ [][Len(sent') > Len(sent) => (pc = "parsing" /\ pc' = "calling" /\ sent = <<>>)]_vars
    /\ [](sent # <<>> => (Validated /\ Len(sent) = 1))
    /\ [](Len(responses) <= 1)
    /\ []((pc = "responded") => (Len(responses) = 1))

\* C16 as stated: each request moves through received, validated,
\* prompt-built, calling-upstream, its outcome and responded in that order,
\* never calls the upstream before validation nor more than once, and produces
\* exactly one response.
C16_Original ==
    /\ RelayPhasesInOrder
    /\ (pc = "received") ~> (Len(responses) = 1)

\* C20: the history part of the submitted contents is exactly the last
\* min(WindowSize, L) turns of the request's history of L turns, in their
\* order, each with role 'model' when the turn's role is 'assistant' and
\* 'user' for every other role, and with the turn's content as its text.
C20_Theorem ==
    \A k \in 1..Len(sent) :
        LET items == req.body.messages.items
            L == Len(items)
            n == IF L < WindowSize THEN L ELSE WindowSize
            window == Tail(sent[k].contents)
        IN  /\ Len(window) = n
            /\ \A i \in 1..n :
                 window[i] = [role |-> IF items[L - n + i].role = "assistant"
                                       THEN "model" ELSE "user",
                              text |-> items[L - n + i].content]

\* a history longer than the window, with a turn cut off and with assistant,
\* user and system turns kept
C20_Witness ==
    /\ sent # <<>>
    /\ Len(req.body.messages.items) = WindowSize + 1
    /\ req.body.messages.items[1].role = "assistant"
    /\ req.body.messages.items[2].role = "system"
    /\ req.body.messages.items[3].role = "assistant"
    /\ req.body.messages.items[4].role = "user"
    /\ Tail(sent[1].contents)[1].role = "user"
    /\ Tail(sent[1].contents)[2].role = "model"

\* C13: a request and the same request with the other of the user types
\* company and client submit different system-prompt texts and are otherwise
\* handled alike: both are submitted upstream or neither is, with the same
\* history window, and when the upstream behaves the same way both times the
\* two responses are the same in status and body.
C13_Theorem ==
    prev # NoPrev =>
        /\ pc \notin {"received", "parsing"} =>
             /\ Len(sent) = Len(prev.sent)
             /\ \A k \in 1..Len(sent) :
                  /\ Tail(sent[k].contents) = Tail(prev.sent[k].contents)
                  /\ sent[k].contents[1].role = prev.sent[k].contents[1].role
                  /\ sent[k].contents[1].text # prev.sent[k].contents[1].text
        /\ ( /\ pc = "responded"
             /\ race = prev.race
             /\ upstream = prev.upstream
             /\ upstreamBody = prev.upstreamBody ) => responses = prev.responses

\* a company request and its client twin, both answered 200 by way of the
\* upstream
C13_Witness ==
    /\ prev # NoPrev
    /\ pc = "responded"
    /\ race = "fetch"
    /\ upstreamBody = prev.upstreamBody
    /\ responses # <<>>
    /\ responses[1].status = 200
    /\ responses = prev.responses
    /\ prev.sent[1].contents[1].text = PromptCompany
    /\ sent[1].contents[1].text = PromptClient
    /\ Len(sent[1].contents) = WindowSize + 1

\* the 500 response of handleError for an exception with this message
FailedToProcess(message) ==
    [status |-> 500,
     body |-> [error |-> "Failed to process request",
               details |-> IF message = "" THEN "Unknown error" ELSE message]]

\* C17 as stated: an exception thrown while the request is processed, other
\* than the expiry of the relay's timer (the body is no JSON, the upstream
\* call fails in transport, reading the upstream body fails), is answered 500
\* 'Failed to process request' with the exception's message as details (the
\* text 'Unknown error' standing for an empty message).
C17_Original ==
    pc = "responded" =>
        /\ (req.method = "POST" /\ env # "" /\ req.body.kind = "malformed")
              => responses = <<FailedToProcess(JsonSyntaxMessage(req.body.raw))>>
        /\ race = "fetchError"
              => responses = <<FailedToProcess(upstream.error)>>
        /\ upstreamBody.kind = "failed"
              => responses = <<FailedToProcess(upstreamBody.message)>>

====
